---- MODULE Spec2Model ----
(***************************************************************************)
(* MediTrack (src/assessment/MediTrack (1).py): the SQLite repository      *)
(* Repo, the require_role gate and the handlers of MediTrackApp that call  *)
(* them.                                                                   *)
(*                                                                         *)
(* Text typed into a form field is a sequence of one-character strings, so *)
(* that strip(), int(), float(), re.fullmatch and SQLite's BINARY          *)
(* collation are computed on the characters.  The alphabet is the digits,  *)
(* the blank, "+", "-", ".", ":", "|", "(", ")" and the letters.           *)
(*                                                                         *)
(* A Python int is a record [neg, mag]: a sign and the decimal digits of   *)
(* the magnitude without leading zeros (<<>> is zero), so that values      *)
(* beyond SQLite's 64-bit INTEGER are represented exactly.  Row identities *)
(* inside the database are naturals.  Optional[T] is a sequence of length  *)
(* 0 (None) or 1.                                                          *)
(*                                                                         *)
(* Of the Treeview widgets the state keeps the result list of the Reports  *)
(* tab (tree_rx) and, of the others, the one the latest call has repainted *)
(* with its rows (last.tree, last.rows).                                   *)
(***************************************************************************)
EXTENDS Integers, Sequences, FiniteSets, TLC

VARIABLES
    current_role,     \* MediTrackApp.current_role
    patients,         \* table patients as seen through Repo.conn
    appointments,     \* table appointments as seen through Repo.conn
    invoices,         \* table invoices as seen through Repo.conn
    sqlite_sequence,  \* AUTOINCREMENT high-water mark of each table
    disk,             \* the committed database file meditrack.db
    tree_rx,          \* the rows of MediTrackApp.tree_rx, the search results
    last              \* the most recent handler call: its inputs, how it
                      \* ended, the identity it reported, the log line it
                      \* wrote, the Treeview it repainted and the rows in it

vars == <<current_role, patients, appointments, invoices, sqlite_sequence,
          disk, tree_rx, last>>

-----------------------------------------------------------------------------
(* Bounds of the model. *)

MaxPatients == 2    \* patient rows ever created
MaxAppts == 2       \* appointment rows ever created
MaxInvoices == 2    \* invoice rows ever created
SideRows == 1       \* rows ever created in a table a specification keeps small

-----------------------------------------------------------------------------
(* Characters and text. *)

Digits == {"0", "1", "2", "3", "4", "5", "6", "7", "8", "9"}

DigitVal(c) ==
    CASE c = "0" -> 0 [] c = "1" -> 1 [] c = "2" -> 2 [] c = "3" -> 3
      [] c = "4" -> 4 [] c = "5" -> 5 [] c = "6" -> 6 [] c = "7" -> 7
      [] c = "8" -> 8 [] c = "9" -> 9

\* Code point of a character: SQLite compares TEXT byte by byte.
Ord(c) ==
    CASE c = " " -> 32 [] c = "+" -> 43 [] c = "-" -> 45 [] c = "." -> 46
      [] c \in Digits -> 48 + DigitVal(c)
      [] c = ":" -> 58 [] c = "A" -> 65 [] c = "B" -> 66 [] c = "x" -> 120

RECURSIVE LStrip(_)
LStrip(s) == IF s # <<>> /\ Head(s) = " " THEN LStrip(Tail(s)) ELSE s

RECURSIVE RStrip(_)
RStrip(s) ==
    IF s # <<>> /\ s[Len(s)] = " " THEN RStrip(SubSeq(s, 1, Len(s) - 1)) ELSE s

\* str.strip()
Strip(s) == RStrip(LStrip(s))

AllDigits(s) == \A i \in 1..Len(s) : s[i] \in Digits

RECURSIVE DropZeros(_)
DropZeros(d) == IF d # <<>> /\ Head(d) = 0 THEN DropZeros(Tail(d)) ELSE d

\* int(text): blanks around, an optional sign, then one or more digits;
\* ok is FALSE where int raises ValueError.
PyInt(s) ==
    LET t == Strip(s)
        signed == t # <<>> /\ Head(t) \in {"+", "-"}
        body == IF signed THEN Tail(t) ELSE t
        mag == DropZeros([i \in 1..Len(body) |-> DigitVal(body[i])])
    IN  IF body = <<>> \/ ~AllDigits(body)
        THEN [ok |-> FALSE, val |-> [neg |-> FALSE, mag |-> <<>>]]
        ELSE [ok |-> TRUE,
              val |-> [neg |-> signed /\ Head(t) = "-" /\ mag # <<>>,
                       mag |-> mag]]

RECURSIVE Numeral(_)
Numeral(n) == IF n = 0 THEN <<>> ELSE Append(Numeral(n \div 10), n % 10)

\* The Python int of a natural of the model.
PyNat(n) == [neg |-> FALSE, mag |-> Numeral(n)]

\* a <= b for digit sequences of one length: at the first place where they
\* differ, a has the smaller digit.
LexLeq(a, b) ==
    LET diffs == {i \in 1..Len(a) : a[i] # b[i]}
    IN  diffs = {} \/ LET i == CHOOSE k \in diffs : \A m \in diffs : k <= m
                      IN  a[i] < b[i]

Int64MaxMag == <<9,2,2,3,3,7,2,0,3,6,8,5,4,7,7,5,8,0,7>>
Int64MinMag == <<9,2,2,3,3,7,2,0,3,6,8,5,4,7,7,5,8,0,8>>

\* Binding a Python int to a statement: sqlite3 raises OverflowError for a
\* value outside the signed 64-bit range.
FitsSqliteInt(v) ==
    LET lim == IF v.neg THEN Int64MinMag ELSE Int64MaxMag
    IN  \/ Len(v.mag) < Len(lim)
        \/ Len(v.mag) = Len(lim) /\ LexLeq(v.mag, lim)

\* re.fullmatch(r"[0-9]{10}", phone)
PhoneMatches(phone) == Len(phone) = 10 /\ AllDigits(phone)

RECURSIVE DigitsToNat(_)
DigitsToNat(d) ==
    IF d = <<>> THEN 0
    ELSE 10 * DigitsToNat(SubSeq(d, 1, Len(d) - 1)) + DigitVal(d[Len(d)])

RECURSIVE DropTrailingZeros(_)
DropTrailingZeros(d) ==
    IF d # <<>> /\ d[Len(d)] = "0"
    THEN DropTrailingZeros(SubSeq(d, 1, Len(d) - 1)) ELSE d

\* float(text) for plain decimal literals: blanks around, an optional sign,
\* digits with at most one ".", at least one digit.  The double is named by
\* its shortest decimal form, mant * 10^(-exp10); zero is unsigned, as ==
\* does not tell -0.0 from 0.0.  (No text of the alphabet spells nan, inf or
\* an exponent.)  ok is FALSE where float raises ValueError.
PyFloat(s) ==
    LET t == Strip(s)
        signed == t # <<>> /\ Head(t) \in {"+", "-"}
        body == IF signed THEN Tail(t) ELSE t
        dots == {i \in 1..Len(body) : body[i] = "."}
        dot == IF dots = {} THEN Len(body) + 1 ELSE CHOOSE i \in dots : TRUE
        whole == SubSeq(body, 1, dot - 1)
        frac == DropTrailingZeros(SubSeq(body, dot + 1, Len(body)))
        good == /\ Cardinality(dots) <= 1
                /\ AllDigits(whole) /\ AllDigits(SubSeq(body, dot + 1, Len(body)))
                /\ Len(body) - Cardinality(dots) >= 1
        mant == DigitsToNat(whole \o frac)
    IN  IF ~good
        THEN [ok |-> FALSE, val |-> [neg |-> FALSE, mant |-> 0, exp10 |-> 0]]
        ELSE [ok |-> TRUE,
              val |-> [neg |-> signed /\ Head(t) = "-" /\ mant # 0,
                       mant |-> mant, exp10 |-> Len(frac)]]

\* float(0), the value of `text or 0` for an empty text.
FloatZero == [neg |-> FALSE, mant |-> 0, exp10 |-> 0]

-----------------------------------------------------------------------------
(* Regular expressions: re.compile(pattern, flags=re.IGNORECASE) and       *)
(* rx.search(text), for patterns made of letters, digits, blanks, "-",     *)
(* ".", "|" and groups "(" ... ")".                                        *)

Uppercase ==
    <<"A", "B", "C", "D", "E", "F", "G", "H", "I", "J", "K", "L", "M",
      "N", "O", "P", "Q", "R", "S", "T", "U", "V", "W", "X", "Y", "Z">>

Lowercase ==
    <<"a", "b", "c", "d", "e", "f", "g", "h", "i", "j", "k", "l", "m",
      "n", "o", "p", "q", "r", "s", "t", "u", "v", "w", "x", "y", "z">>

\* Mutant of Lower: no case is folded, the match is case-sensitive.
Lower_as_is(c) == c

\* Case folding under re.IGNORECASE.
Lower(c) ==
    IF \E i \in 1..26 : Uppercase[i] = c
    THEN Lowercase[CHOOSE i \in 1..26 : Uppercase[i] = c]
    ELSE c

\* Groups opened and not yet closed in the first i characters of p.
Depth(p, i) ==
    Cardinality({m \in 1..i : p[m] = "("})
    - Cardinality({m \in 1..i : p[m] = ")"})

\* re.compile accepts p: every ")" closes a group and every group is
\* closed; otherwise it raises re.error.
Compiles(p) ==
    /\ \A i \in 1..Len(p) : Depth(p, i) >= 0
    /\ Depth(p, Len(p)) = 0

\* The places where a match of p[i..j] that starts at place k of s may end:
\* AltEnds for alternatives separated by "|", SeqEnds for one alternative,
\* a sequence of characters, "." and groups; d[m + 1] is Depth(p, m).
RECURSIVE AltEnds(_, _, _, _, _, _)
RECURSIVE SeqEnds(_, _, _, _, _, _)
AltEnds(p, d, i, j, s, k) ==
    IF \E m \in i..j : p[m] = "|" /\ d[m + 1] = d[i]
    THEN LET b == CHOOSE m \in i..j :
                     /\ p[m] = "|" /\ d[m + 1] = d[i]
                     /\ \A n \in i..(m - 1) : ~(p[n] = "|" /\ d[n + 1] = d[i])
         IN  SeqEnds(p, d, i, b - 1, s, k) \cup AltEnds(p, d, b + 1, j, s, k)
    ELSE SeqEnds(p, d, i, j, s, k)

SeqEnds(p, d, i, j, s, k) ==
    IF i > j THEN {k}
    ELSE IF p[i] = "("
    THEN LET c == CHOOSE m \in (i + 1)..j :
                     /\ d[m + 1] = d[i]
                     /\ \A n \in (i + 1)..(m - 1) : d[n + 1] # d[i]
         IN  UNION {SeqEnds(p, d, c + 1, j, s, e) :
                       e \in AltEnds(p, d, i + 1, c - 1, s, k)}
    ELSE IF k <= Len(s) /\ (p[i] = "." \/ Lower(p[i]) = Lower(s[k]))
    THEN SeqEnds(p, d, i + 1, j, s, k + 1)
    ELSE {}

\* rx.search(s): the pattern matches somewhere in s.
Search(p, s) ==
    \E d \in {[m \in 1..(Len(p) + 1) |-> Depth(p, m - 1)]} :
       \E k \in 1..(Len(s) + 1) : AltEnds(p, d, 1, Len(p), s, k) # {}

-----------------------------------------------------------------------------
(* Data models. *)

None == <<>>
Some(x) == <<x>>

\* Patient(...), id None until the store assigns it.
Patient(name, age, gender, phone, disease, status) ==
    [name |-> name, age |-> age, gender |-> gender, phone |-> phone,
     disease |-> disease, status |-> status, id |-> None]

\* Appointment(...)
Appointment(patient_id, doctor, date, time, notes) ==
    [patient_id |-> patient_id, doctor |-> doctor, date |-> date,
     time |-> time, notes |-> notes, id |-> None]

\* Invoice(...); created_at is datetime.now() at construction.
Invoice(patient_id, consultation_fee, medicines_total, tax_pct, created_at) ==
    [patient_id |-> patient_id, consultation_fee |-> consultation_fee,
     medicines_total |-> medicines_total, tax_pct |-> tax_pct,
     created_at |-> created_at, id |-> None]

RECURSIVE Pow10(_)
Pow10(n) == IF n = 0 THEN 1 ELSE 10 * Pow10(n - 1)

\* A float of the model as a decimal fraction n / 10^d.
Dec(v) == [n |-> IF v.neg THEN 0 - v.mant ELSE v.mant, d |-> v.exp10]

\* a + b and a * b of decimal fractions.
DecAdd(a, b) ==
    LET d == IF a.d > b.d THEN a.d ELSE b.d
    IN  [n |-> a.n * Pow10(d - a.d) + b.n * Pow10(d - b.d), d |-> d]

DecMul(a, b) == [n |-> a.n * b.n, d |-> a.d + b.d]

\* The float that c hundredths spell, in its shortest decimal form.
FloatOfCents(c) ==
    LET m == IF c < 0 THEN 0 - c ELSE c
    IN  IF m % 100 = 0 THEN [neg |-> c < 0, mant |-> m \div 100, exp10 |-> 0]
        ELSE IF m % 10 = 0 THEN [neg |-> c < 0, mant |-> m \div 10, exp10 |-> 1]
        ELSE [neg |-> c < 0, mant |-> m, exp10 |-> 2]

\* round(x, 2), as the floats it may return.  The double arithmetic that
\* leads to x is followed in decimal fractions: its error, far below the
\* last decimal place of the amounts typed, moves the result only where the
\* fraction lies exactly half-way between two hundredths, and there the
\* binary expansion decides (round(2.675, 2) is 2.67, round(1.5075, 2) is
\* 1.51), so both neighbours are kept.
Round2(x) ==
    LET m == IF x.n < 0 THEN 0 - x.n ELSE x.n
        sign == IF x.n < 0 THEN 0 - 1 ELSE 1
        unit == Pow10(x.d - 2)
        q == m \div unit
        r == m % unit
    IN  IF x.d <= 2 THEN {FloatOfCents(x.n * Pow10(2 - x.d))}
        ELSE IF 2 * r < unit THEN {FloatOfCents(sign * q)}
        ELSE IF 2 * r > unit THEN {FloatOfCents(sign * (q + 1))}
        ELSE {FloatOfCents(sign * q), FloatOfCents(sign * (q + 1))}

\* Mutant of total: the tax is left out whatever include_tax says.
total_untaxed(self, args) ==
    Round2(DecAdd(Dec(self.consultation_fee), Dec(self.medicines_total)))

\* Invoice.total; args is the positional arguments of the call, <<>> or
\* <<include_tax>>, and include_tax defaults to True.
total(self, args) ==
    LET include_tax == IF args = <<>> THEN TRUE ELSE args[1]
        subtotal == DecAdd(Dec(self.consultation_fee),
                           Dec(self.medicines_total))
        hundred == [n |-> 100, d |-> 0]
        \* 1 + tax_pct / 100.0
        factor == [n |-> DecAdd(hundred, Dec(self.tax_pct)).n,
                   d |-> DecAdd(hundred, Dec(self.tax_pct)).d + 2]
    IN  IF include_tax THEN Round2(DecMul(subtotal, factor))
        ELSE Round2(subtotal)

-----------------------------------------------------------------------------
(* Repo: the SQLite store. *)

SetMax(S) == CHOOSE x \in S : \A y \in S : y <= x

Ids(table) == {r.id : r \in table}

\* Mutant of NewRowId: INTEGER PRIMARY KEY without AUTOINCREMENT, one more
\* than the largest identity the table holds now.
NewRowId_of_rows(table, seq) == SetMax(Ids(table) \cup {0}) + 1

\* INTEGER PRIMARY KEY AUTOINCREMENT: one more than the largest identity the
\* table has ever held.
NewRowId(table, seq) == SetMax(Ids(table) \cup {seq}) + 1

\* What Repo.conn sees, uncommitted changes included.
View ==
    [patients |-> patients, appointments |-> appointments,
     invoices |-> invoices, seq |-> sqlite_sequence]

EmptyDb ==
    [patients |-> {}, appointments |-> {}, invoices |-> {},
     seq |-> [patients |-> 0, appointments |-> 0, invoices |-> 0]]

\* A Repo call that raised: nothing executed, nothing committed.
Raised(exc) == [exc |-> exc, ret |-> 0, view |-> View, disk |-> disk]

\* Mutant of Committed: conn.commit() is left out, the file keeps what it
\* held.
Uncommitted(ret, v) == [exc |-> "", ret |-> ret, view |-> v, disk |-> disk]

\* A Repo call that executed its statement, leaving the view v, and then
\* ran conn.commit().
Committed(ret, v) == [exc |-> "", ret |-> ret, view |-> v, disk |-> v]

\* PRAGMA foreign_keys=ON: a child row must name an existing patient.
ForeignKeyOk(patient_id) == \E r \in patients : PyNat(r.id) = patient_id

\* Mutant of add_patient: the name and the disease are bound to each
\* other's column.
add_patient_swapped(p) ==
    IF ~FitsSqliteInt(p.age) THEN Raised("OverflowError")
    ELSE LET id == NewRowId(patients, sqlite_sequence.patients)
             row == [id |-> id, name |-> p.disease, age |-> p.age,
                     gender |-> p.gender, phone |-> p.phone,
                     disease |-> p.name, status |-> p.status]
         IN  Committed(id, [View EXCEPT !.patients = @ \cup {row},
                                        !.seq.patients = id])

\* Repo.add_patient
add_patient(p) ==
    IF ~FitsSqliteInt(p.age) THEN Raised("OverflowError")
    ELSE LET id == NewRowId(patients, sqlite_sequence.patients)
             row == [id |-> id, name |-> p.name, age |-> p.age,
                     gender |-> p.gender, phone |-> p.phone,
                     disease |-> p.disease, status |-> p.status]
         IN  Committed(id, [View EXCEPT !.patients = @ \cup {row},
                                        !.seq.patients = id])

\* Mutant of update_patient: the test of p.id is dropped; the UPDATE binds
\* NULL, matches no row, and is committed.
update_patient_unchecked(p) ==
    IF p.id = None THEN Committed(0, View)
    ELSE IF ~FitsSqliteInt(p.age) \/ ~FitsSqliteInt(p.id[1])
    THEN Raised("OverflowError")
    ELSE LET upd(r) ==
                 IF PyNat(r.id) = p.id[1]
                 THEN [id |-> r.id, name |-> p.name, age |-> p.age,
                       gender |-> p.gender, phone |-> p.phone,
                       disease |-> p.disease, status |-> p.status]
                 ELSE r
         IN  Committed(0, [View EXCEPT !.patients = {upd(r) : r \in @}])

\* Mutant of update_patient: the UPDATE has no WHERE clause and overwrites
\* every row.
update_patient_all_rows(p) ==
    IF p.id = None THEN Raised("ValidationError")
    ELSE IF ~FitsSqliteInt(p.age) \/ ~FitsSqliteInt(p.id[1])
    THEN Raised("OverflowError")
    ELSE LET upd(r) == [id |-> r.id, name |-> p.name, age |-> p.age,
                        gender |-> p.gender, phone |-> p.phone,
                        disease |-> p.disease, status |-> p.status]
         IN  Committed(0, [View EXCEPT !.patients = {upd(r) : r \in @}])

\* Repo.update_patient
update_patient(p) ==
    IF p.id = None THEN Raised("ValidationError")
    ELSE IF ~FitsSqliteInt(p.age) \/ ~FitsSqliteInt(p.id[1])
    THEN Raised("OverflowError")
    ELSE LET upd(r) ==
                 IF PyNat(r.id) = p.id[1]
                 THEN [id |-> r.id, name |-> p.name, age |-> p.age,
                       gender |-> p.gender, phone |-> p.phone,
                       disease |-> p.disease, status |-> p.status]
                 ELSE r
         IN  Committed(0, [View EXCEPT !.patients = {upd(r) : r \in @}])

\* Patient(id=row[0], name=row[1], ...)
PatientOfRow(r) ==
    [name |-> r.name, age |-> r.age, gender |-> r.gender, phone |-> r.phone,
     disease |-> r.disease, status |-> r.status, id |-> Some(PyNat(r.id))]

\* Repo.get_patient: None, or the Patient of the row; the binding of pid
\* raises OverflowError outside 64 bits.
get_patient(pid) ==
    IF ~FitsSqliteInt(pid) THEN [exc |-> "OverflowError", val |-> None]
    ELSE LET hit == {r \in patients : PyNat(r.id) = pid}
         IN  [exc |-> "",
              val |-> IF hit = {} THEN None
                      ELSE Some(PatientOfRow(CHOOSE r \in hit : TRUE))]

\* Mutant of OrderByIdDesc: ORDER BY id ASC.
OrderByIdAsc(rows) ==
    [i \in 1..Cardinality(rows) |->
        CHOOSE r \in rows : Cardinality({q \in rows : q.id < r.id}) = i - 1]

\* ORDER BY id DESC: the primary key is unique, so the row at place i is the
\* one with i - 1 rows of a larger id.
OrderByIdDesc(rows) ==
    [i \in 1..Cardinality(rows) |->
        CHOOSE r \in rows : Cardinality({q \in rows : q.id > r.id}) = i - 1]

\* Repo.all_patients
all_patients ==
    LET s == OrderByIdDesc(patients)
    IN  [i \in 1..Len(s) |-> PatientOfRow(s[i])]

\* Repo.add_appointment
add_appointment(a) ==
    IF ~FitsSqliteInt(a.patient_id) THEN Raised("OverflowError")
    ELSE IF ~ForeignKeyOk(a.patient_id) THEN Raised("IntegrityError")
    ELSE LET id == NewRowId(appointments, sqlite_sequence.appointments)
             row == [id |-> id, patient_id |-> a.patient_id,
                     doctor |-> a.doctor, date |-> a.date, time |-> a.time,
                     notes |-> a.notes]
         IN  Committed(id, [View EXCEPT !.appointments = @ \cup {row},
                                        !.seq.appointments = id])

\* Repo.add_invoice
add_invoice(inv) ==
    IF ~FitsSqliteInt(inv.patient_id) THEN Raised("OverflowError")
    ELSE IF ~ForeignKeyOk(inv.patient_id) THEN Raised("IntegrityError")
    ELSE LET id == NewRowId(invoices, sqlite_sequence.invoices)
             row == [id |-> id, patient_id |-> inv.patient_id,
                     consultation_fee |-> inv.consultation_fee,
                     medicines_total |-> inv.medicines_total,
                     tax_pct |-> inv.tax_pct, created_at |-> inv.created_at]
         IN  Committed(id, [View EXCEPT !.invoices = @ \cup {row},
                                        !.seq.invoices = id])

\* The characters of a status as the combobox offers it.
Chars(text) ==
    CASE text = "New" -> <<"N", "e", "w">>
      [] text = "Follow-up" -> <<"F", "o", "l", "l", "o", "w", "-", "u", "p">>
      [] text = "Critical" -> <<"C", "r", "i", "t", "i", "c", "a", "l">>
      [] OTHER -> <<>>

\* SELECT ... FROM patients without ORDER BY: SQLite walks the table in the
\* order of the row identities.
TableScan(rows) ==
    [i \in 1..Cardinality(rows) |->
        CHOOSE r \in rows : Cardinality({q \in rows : q.id < r.id}) = i - 1]

\* Mutant of Column: an unknown field falls back to the name.
Column_name_fallback(field) ==
    IF field \notin {"status", "name", "disease"} THEN "name" ELSE field

\* col = "disease" if field not in ("status", "name") else field
Column(field) == IF field \notin {"status", "name"} THEN "disease" ELSE field

\* str(r[2] or ""), r[2] being the column col of row r.
ColumnText(r, col) ==
    IF col = "name" THEN r.name
    ELSE IF col = "status" THEN Chars(r.status)
    ELSE r.disease

\* Repo.regex_query: the (name, id) pairs, or re.error from re.compile,
\* which runs after the rows are fetched.
regex_query(pattern, field) ==
    LET rows == TableScan(patients)
        hits == SelectSeq(rows,
                   LAMBDA r : Search(pattern, ColumnText(r, Column(field))))
    IN  IF ~Compiles(pattern) THEN [exc |-> "re.error", val |-> <<>>]
        ELSE [exc |-> "",
              val |-> [i \in 1..Len(hits) |->
                          <<hits[i].name, PyNat(hits[i].id)>>]]

\* a < b in SQLite's BINARY collation of TEXT (memcmp, then the length): at
\* the first place where they differ a has the smaller code point, or a is
\* a proper prefix of b.
TextLess(a, b) ==
    LET n == IF Len(a) < Len(b) THEN Len(a) ELSE Len(b)
        diffs == {i \in 1..n : a[i] # b[i]}
    IN  IF diffs = {} THEN Len(a) < Len(b)
        ELSE LET i == CHOOSE k \in diffs : \A m \in diffs : k <= m
             IN  Ord(a[i]) < Ord(b[i])

\* r may come before q under ORDER BY date DESC, time DESC.
DateTimeDescOk(r, q) ==
    \/ TextLess(q.date, r.date)
    \/ q.date = r.date /\ ~TextLess(r.time, q.time)

\* The orders in which ORDER BY date DESC, time DESC may return the rows:
\* rows that tie on both keys come in an order SQL leaves open.
OrderByDateTimeDesc(rows) ==
    LET n == Cardinality(rows)
    IN  {s \in [1..n -> rows] :
            /\ \A i, j \in 1..n : i < j => s[i] # s[j]
            /\ \A i \in 1..(n - 1) : DateTimeDescOk(s[i], s[i + 1])}

\* Appointment(id=r[0], patient_id=r[1], ...)
AppointmentOfRow(r) ==
    [patient_id |-> r.patient_id, doctor |-> r.doctor, date |-> r.date,
     time |-> r.time, notes |-> r.notes, id |-> Some(PyNat(r.id))]

\* Invoice(id=r[0], patient_id=r[1], ...)
InvoiceOfRow(r) ==
    [patient_id |-> r.patient_id, consultation_fee |-> r.consultation_fee,
     medicines_total |-> r.medicines_total, tax_pct |-> r.tax_pct,
     created_at |-> r.created_at, id |-> Some(PyNat(r.id))]

\* Repo.appointments_for: the lists the query may return; the binding of
\* patient_id raises OverflowError outside 64 bits.
appointments_for(patient_id) ==
    IF ~FitsSqliteInt(patient_id) THEN [exc |-> "OverflowError", vals |-> {}]
    ELSE LET rows == {r \in appointments : r.patient_id = patient_id}
         IN  [exc |-> "",
              vals |-> {[i \in 1..Len(s) |-> AppointmentOfRow(s[i])] :
                           s \in OrderByDateTimeDesc(rows)}]

\* Repo.invoices_for
invoices_for(patient_id) ==
    IF ~FitsSqliteInt(patient_id) THEN [exc |-> "OverflowError", val |-> <<>>]
    ELSE LET rows == {r \in invoices : r.patient_id = patient_id}
             s == OrderByIdDesc(rows)
         IN  [exc |-> "", val |-> [i \in 1..Len(s) |-> InvoiceOfRow(s[i])]]

\* Mutant of delete_patient: the foreign keys are not enforced, only the
\* patient row goes.
delete_patient_no_cascade(pid) ==
    Committed(0, [View EXCEPT !.patients = {r \in @ : r.id # pid}])

\* DELETE FROM patients WHERE id = pid, run on Repo.conn and committed: with
\* PRAGMA foreign_keys=ON the ON DELETE CASCADE clauses of appointments and
\* invoices remove the rows that reference the patient.
delete_patient(pid) ==
    Committed(0, [View EXCEPT
        !.patients = {r \in @ : r.id # pid},
        !.appointments = {r \in @ : r.patient_id # PyNat(pid)},
        !.invoices = {r \in @ : r.patient_id # PyNat(pid)}])

-----------------------------------------------------------------------------
(* The role gate and the log. *)

NoLog == [event |-> "", role |-> "", fn |-> "", id |-> PyNat(0)]

\* log(msg): the line a call appends to meditrack.log.
LogLine(event, id) == [event |-> event, role |-> "", fn |-> "", id |-> id]

\* How a handler call ended.
Call(op, args, outcome, ret, logline, tree, rows) ==
    [op |-> op, role |-> current_role, args |-> args, outcome |-> outcome,
     ret |-> ret, log |-> logline, tree |-> tree, rows |-> rows]

\* The call left the session and the store as they were.
NothingDone ==
    UNCHANGED <<current_role, patients, appointments, invoices,
                sqlite_sequence, disk, tree_rx>>

\* A Repo call's statement and commit take effect.
Apply(res) ==
    /\ patients' = res.view.patients
    /\ appointments' = res.view.appointments
    /\ invoices' = res.view.invoices
    /\ sqlite_sequence' = res.view.seq
    /\ disk' = res.disk

\* Mutant of require_role: the test is dropped, every role passes.
require_role_open(allowed_roles) == current_role = current_role

\* require_role: the wrapper's test.
require_role(allowed_roles) == current_role \in allowed_roles

\* require_role: the wrapper's denial: it logs and raises AccessDenied
\* without calling fn.
Denied(fn, args) ==
    /\ last' = Call(fn, args, "AccessDenied", 0,
                    [event |-> "ACCESS DENIED", role |-> current_role,
                     fn |-> fn, id |-> PyNat(0)], "", <<>>)
    /\ NothingDone

\* A handler that ended in an exception, caught (with its log line) or not.
Failed(fn, args, exc, logline) ==
    /\ last' = Call(fn, args, exc, 0, logline, "", <<>>)
    /\ NothingDone

\* The role sets of the four @require_role decorators.
PatientRoles == {"Admin", "Receptionist", "Doctor"}
AppointmentRoles == {"Admin", "Receptionist", "Doctor"}
\* Mutant of InvoiceRoles: Receptionist is let in.
InvoiceRolesAll == {"Admin", "Receptionist", "Doctor"}

InvoiceRoles == {"Admin", "Doctor"}

\* The roles the login combobox offers.
LoginRoles == {"Admin", "Receptionist", "Doctor"}

-----------------------------------------------------------------------------
(* MediTrackApp: the handlers. *)

\* Mutant of _validate_patient: the phone is not matched.
validate_patient_any_phone(form) ==
    LET age == PyInt(form.p_age)
        phone == Strip(form.p_phone)
    IN  IF ~age.ok
        THEN [exc |-> "ValidationError",
              patient |-> Patient(<<>>, PyNat(0), "", <<>>, <<>>, "")]
        ELSE [exc |-> "",
              patient |-> Patient(Strip(form.p_name), age.val, form.p_gender,
                                  phone, Strip(form.p_disease), form.p_status)]

\* MediTrackApp._validate_patient
validate_patient(form) ==
    LET age == PyInt(form.p_age)
        phone == Strip(form.p_phone)
    IN  IF ~age.ok \/ ~PhoneMatches(phone)
        THEN [exc |-> "ValidationError",
              patient |-> Patient(<<>>, PyNat(0), "", <<>>, <<>>, "")]
        ELSE [exc |-> "",
              patient |-> Patient(Strip(form.p_name), age.val, form.p_gender,
                                  phone, Strip(form.p_disease), form.p_status)]

\* In the handlers below, \E x \in {e} names the value of e, as a local
\* variable of the Python code does.

\* MediTrackApp.on_save_patient
on_save_patient(form) ==
    \E v \in {validate_patient(form)} :
    \E res \in {add_patient(v.patient)} :
    LET fn == "on_save_patient"
    IN  IF ~require_role(PatientRoles) THEN Denied(fn, form)
        ELSE IF v.exc # ""
        THEN Failed(fn, form, v.exc, LogLine("ERROR save patient", PyNat(0)))
        ELSE IF res.exc # "" THEN Failed(fn, form, res.exc, NoLog)
        ELSE /\ Apply(res)
             /\ last' = Call(fn, form, "ok", res.ret,
                             LogLine("ADD PATIENT", PyNat(res.ret)),
                             "tree_pat", all_patients')
             /\ UNCHANGED <<current_role, tree_rx>>

\* MediTrackApp.on_update_patient
on_update_patient(form) ==
    \E v \in {validate_patient(form)}, id \in {PyInt(Strip(form.p_id))} :
    \E res \in {update_patient([v.patient EXCEPT !.id = Some(id.val)])} :
    LET fn == "on_update_patient"
        err == LogLine("ERROR update patient", PyNat(0))
    IN  IF ~require_role(PatientRoles) THEN Denied(fn, form)
        ELSE IF v.exc # "" THEN Failed(fn, form, v.exc, err)
        ELSE IF Strip(form.p_id) = <<>>
        THEN Failed(fn, form, "ValidationError", err)
        ELSE IF ~id.ok THEN Failed(fn, form, "ValueError", err)
        ELSE IF res.exc = "ValidationError" THEN Failed(fn, form, res.exc, err)
        ELSE IF res.exc # "" THEN Failed(fn, form, res.exc, NoLog)
        ELSE /\ Apply(res)
             /\ last' = Call(fn, form, "ok", 0,
                             LogLine("UPDATE PATIENT", id.val),
                             "tree_pat", all_patients')
             /\ UNCHANGED <<current_role, tree_rx>>

\* MediTrackApp.on_add_appt, with the on_load_appts it ends in
on_add_appt(form) ==
    \E pid \in {PyInt(form.ap_ptid)} :
    \E found \in {get_patient(pid.val)} :
    \E res \in {add_appointment(
                   Appointment(pid.val, Strip(form.ap_doc),
                               Strip(form.ap_date), Strip(form.ap_time),
                               Strip(form.ap_notes)))} :
    LET fn == "on_add_appt"
        err == LogLine("ERROR add appt", PyNat(0))
    IN  IF ~require_role(AppointmentRoles) THEN Denied(fn, form)
        ELSE IF ~pid.ok THEN Failed(fn, form, "ValueError", err)
        ELSE IF found.exc # "" THEN Failed(fn, form, found.exc, NoLog)
        ELSE IF found.val = None THEN Failed(fn, form, "ValidationError", err)
        ELSE IF res.exc # "" THEN Failed(fn, form, res.exc, NoLog)
        ELSE /\ Apply(res)
             /\ \E rows \in appointments_for(pid.val)'.vals :
                   last' = Call(fn, form, "ok", res.ret,
                                LogLine("ADD APPOINTMENT", PyNat(res.ret)),
                                "tree_appts", rows)
             /\ UNCHANGED <<current_role, tree_rx>>

\* MediTrackApp.on_load_appts: the list is emptied first, then filled unless
\* int() or the query raises.
on_load_appts(form) ==
    \E pid \in {PyInt(form.ap_ptid)} :
    \E got \in {appointments_for(pid.val)} :
    LET fn == "on_load_appts"
        tree == "tree_appts"
    IN  /\ current_role # "Guest"
        /\ IF ~pid.ok
           THEN last' = Call(fn, form, "ValueError", 0, NoLog, tree, <<>>)
           ELSE IF got.exc # ""
           THEN last' = Call(fn, form, got.exc, 0, NoLog, tree, <<>>)
           ELSE \E rows \in got.vals :
                   last' = Call(fn, form, "ok", 0, NoLog, tree, rows)
        /\ NothingDone

\* float(text or 0)
FloatField(text) ==
    IF text = <<>> THEN [ok |-> TRUE, val |-> FloatZero] ELSE PyFloat(text)

\* MediTrackApp.on_create_invoice, with the on_load_invoices it ends in; now
\* is the clock reading Invoice() stamps into created_at.
on_create_invoice(form, now) ==
    \E pid \in {PyInt(form.b_pid)}, fee \in {FloatField(form.b_fee)},
       med \in {FloatField(form.b_med)}, tax \in {FloatField(form.b_tax)} :
    \E found \in {get_patient(pid.val)} :
    \E res \in {add_invoice(Invoice(pid.val, fee.val, med.val, tax.val, now))} :
    LET fn == "on_create_invoice"
        err == LogLine("ERROR create invoice", PyNat(0))
    IN  IF ~require_role(InvoiceRoles) THEN Denied(fn, form)
        ELSE IF ~pid.ok THEN Failed(fn, form, "ValueError", err)
        ELSE IF found.exc # "" THEN Failed(fn, form, found.exc, NoLog)
        ELSE IF found.val = None THEN Failed(fn, form, "ValidationError", err)
        ELSE IF ~fee.ok \/ ~med.ok \/ ~tax.ok
        THEN Failed(fn, form, "ValueError", err)
        ELSE IF res.exc # "" THEN Failed(fn, form, res.exc, NoLog)
        ELSE /\ Apply(res)
             /\ last' = Call(fn, [form EXCEPT !.now = now], "ok", res.ret,
                             LogLine("ADD INVOICE", PyNat(res.ret)),
                             "tree_inv", invoices_for(pid.val)'.val)
             /\ UNCHANGED <<current_role, tree_rx>>

\* MediTrackApp.on_load_invoices: the list is emptied first, then filled
\* unless int() or the query raises.  (The total column shown with each row
\* is Invoice.total() of the columns listed here.)
on_load_invoices(form) ==
    \E pid \in {PyInt(form.b_pid)} :
    \E got \in {invoices_for(pid.val)} :
    LET fn == "on_load_invoices"
        tree == "tree_inv"
    IN  /\ current_role # "Guest"
        /\ IF ~pid.ok
           THEN last' = Call(fn, form, "ValueError", 0, NoLog, tree, <<>>)
           ELSE IF got.exc # ""
           THEN last' = Call(fn, form, got.exc, 0, NoLog, tree, <<>>)
           ELSE last' = Call(fn, form, "ok", 0, NoLog, tree, got.val)
        /\ NothingDone

\* MediTrackApp.handle_login, with the build_main_ui it ends in: the login
\* frame is destroyed, so a session logs in once; the Patients tab is filled
\* and the Reports tab is built with an empty result list.
handle_login(role) ==
    /\ current_role = "Guest"
    /\ current_role' = role
    /\ last' = [op |-> "handle_login", role |-> role, args |-> <<>>,
                outcome |-> "ok", ret |-> 0,
                log |-> [event |-> "LOGIN", role |-> role, fn |-> "",
                         id |-> PyNat(0)],
                tree |-> "tree_pat", rows |-> all_patients]
    /\ tree_rx' = <<>>
    /\ UNCHANGED <<patients, appointments, invoices, sqlite_sequence, disk>>

\* Mutant of on_regex_search: the result list is emptied before the query
\* runs, as on_load_appts does with its list.
on_regex_search_clear_first(text, field) ==
    \E res \in {regex_query(Strip(text), field)} :
    LET fn == "on_regex_search"
        args == [rx_pattern |-> text, rx_field |-> field]
    IN  /\ current_role # "Guest"
        /\ IF res.exc # ""
           THEN /\ last' = Call(fn, args, res.exc, 0, NoLog, "", <<>>)
                /\ tree_rx' = <<>>
           ELSE /\ last' = Call(fn, args, "ok", 0, NoLog, "tree_rx", res.val)
                /\ tree_rx' = res.val
        /\ UNCHANGED <<current_role, patients, appointments, invoices,
                       sqlite_sequence, disk>>

\* MediTrackApp.on_regex_search: the result list is replaced once
\* regex_query has returned; re.error is caught and shown in a dialog.
on_regex_search(text, field) ==
    \E res \in {regex_query(Strip(text), field)} :
    LET fn == "on_regex_search"
        args == [rx_pattern |-> text, rx_field |-> field]
    IN  /\ current_role # "Guest"
        /\ IF res.exc # ""
           THEN /\ last' = Call(fn, args, res.exc, 0, NoLog, "", <<>>)
                /\ tree_rx' = tree_rx
           ELSE /\ last' = Call(fn, args, "ok", 0, NoLog, "tree_rx", res.val)
                /\ tree_rx' = res.val
        /\ UNCHANGED <<current_role, patients, appointments, invoices,
                       sqlite_sequence, disk>>

\* inv.total(...) called on an invoice of the store, as on_create_invoice
\* and on_load_invoices call it: the invoice and the store stay as they are.
InvoiceTotal(r, args) ==
    /\ r \in invoices
    /\ \E t \in total(InvoiceOfRow(r), args) :
          last' = [op |-> "total", role |-> current_role,
                   args |-> [self |-> InvoiceOfRow(r), args |-> args],
                   outcome |-> "ok", ret |-> t, log |-> NoLog,
                   tree |-> "", rows |-> <<>>]
    /\ NothingDone

FirstCall ==
    [op |-> "__init__", role |-> "Guest", args |-> <<>>, outcome |-> "ok",
     ret |-> 0, log |-> NoLog, tree |-> "", rows |-> <<>>]

\* main() run again on the same meditrack.db: Repo() opens the committed
\* file, nobody is logged in, no tab is built (no result list is shown).
Restart ==
    /\ current_role # "Guest"
    /\ current_role' = "Guest"
    /\ patients' = disk.patients
    /\ appointments' = disk.appointments
    /\ invoices' = disk.invoices
    /\ sqlite_sequence' = disk.seq
    /\ tree_rx' = <<>>
    /\ last' = FirstCall
    /\ UNCHANGED disk

\* A patient row deleted in the store (no handler does it): the statement
\* runs under the schema and pragma Repo sets up.
DeletePatient(pid) ==
    /\ pid \in Ids(patients)
    /\ Apply(delete_patient(pid))
    /\ last' = [op |-> "delete_patient", role |-> current_role,
                args |-> [pid |-> pid], outcome |-> "ok", ret |-> 0,
                log |-> NoLog, tree |-> "", rows |-> <<>>]
    /\ UNCHANGED <<current_role, tree_rx>>

\* MediTrackApp.__init__ on a new database file.
Init ==
    /\ current_role = "Guest"
    /\ patients = {}
    /\ appointments = {}
    /\ invoices = {}
    /\ sqlite_sequence = EmptyDb.seq
    /\ disk = EmptyDb
    /\ tree_rx = <<>>
    /\ last = FirstCall

-----------------------------------------------------------------------------
(* The inputs the model draws from. *)

\* Texts the inputs use.
PHONE_OK == <<"9", "8", "7", "6", "5", "4", "3", "2", "1", "0">>
PHONE_SHORT == <<"1", "2", "3", "4", "5">>
PHONE_LONG == <<"1", "2", "3", "4", "5", "6", "7", "8", "9", "0", "1">>
PHONE_X == <<"9", "8", "7", "6", "5", "x", "3", "2", "1", "0">>
TWO_63 == <<"9", "2", "2", "3", "3", "7", "2", "0", "3", "6", "8", "5", "4", "7", "7", "5", "8", "0", "8">>
DATE_5 == <<"2", "0", "2", "5", "-", "0", "1", "-", "0", "5">>
DATE_10 == <<"2", "0", "2", "5", "-", "1", "-", "1", "0">>
TIME_0930 == <<"0", "9", ":", "3", "0">>
TIME_930 == <<"9", ":", "3", "0">>
TIME_1000 == <<"1", "0", ":", "0", "0">>

BasePatientForm ==
    [p_id |-> <<>>, p_name |-> <<"A">>, p_age |-> <<"3", "0">>,
     p_gender |-> "Male", p_phone |-> PHONE_OK,
     p_disease |-> <<>>, p_status |-> "New"]

\* Forms _validate_patient accepts: the name, the disease and the blanks
\* around the phone vary.
GoodPatientForms ==
    {BasePatientForm,
     [BasePatientForm EXCEPT !.p_name = <<" ", "B">>, !.p_status = "Critical"],
     [BasePatientForm EXCEPT !.p_disease = <<"x", " ">>, !.p_gender = "Other"],
     [BasePatientForm EXCEPT !.p_phone = <<" ">> \o PHONE_OK \o <<" ">>]}

\* Forms with one field wrong: the phone, the age.
BadPatientForms ==
    {[BasePatientForm EXCEPT !.p_phone = t] :
        t \in {PHONE_SHORT, PHONE_LONG, PHONE_X}}
    \cup {[BasePatientForm EXCEPT !.p_age = t] : t \in {<<"x">>, TWO_63}}

PatientForms == GoodPatientForms \cup BadPatientForms

\* The Patient ID field of an update: a row's identity, plain or padded,
\* no identity, no number, an identity no row has, one beyond 64 bits.
UpdateForms ==
    {[f EXCEPT !.p_id = <<"1">>] : f \in GoodPatientForms}
    \cup {[BasePatientForm EXCEPT !.p_id = t, !.p_name = <<"B">>] :
            t \in {<<" ", "2">>, <<>>, <<" ">>, <<"x">>, <<"9">>, TWO_63}}
    \cup {[f EXCEPT !.p_id = t] :
            f \in BadPatientForms, t \in {<<>>, <<"1">>}}

\* A patient identity as typed: a row's identity, plain or padded, an
\* identity no row has, no number, nothing, an identity beyond 64 bits.
PatientIdTexts == {<<"1">>, <<" ", "2">>, <<"9">>, <<"x">>, <<>>, TWO_63}

BaseApptForm ==
    [ap_ptid |-> <<"1">>, ap_doc |-> <<"A">>, ap_date |-> DATE_5,
     ap_time |-> TIME_0930, ap_notes |-> <<>>]

\* Appointment forms that differ in the patient named.
ApptFormsByPatient ==
    {[BaseApptForm EXCEPT !.ap_ptid = t] : t \in PatientIdTexts}

\* Appointment forms for patient 1 that differ in the date and the time.
ApptFormsByTime ==
    {[BaseApptForm EXCEPT !.ap_date = d, !.ap_time = t] :
        d \in {DATE_5, DATE_10}, t \in {TIME_0930, TIME_930, TIME_1000}}

LoadApptForms == {[ap_ptid |-> t] : t \in {<<"1">>, <<" ", "2">>, <<"x">>}}

BaseInvoiceForm ==
    [b_pid |-> <<"1">>, b_fee |-> <<"3", "0", "0">>, b_med |-> <<"0">>,
     b_tax |-> <<"1", "8">>, now |-> ""]

\* Invoice forms that differ in the patient named, or in the medicines.
InvoiceForms ==
    {[BaseInvoiceForm EXCEPT !.b_pid = t] : t \in PatientIdTexts}
    \cup {[BaseInvoiceForm EXCEPT !.b_med = t] :
            t \in {<<"x">>, <<"2", ".", "5", "0">>}}

\* Invoice forms for patient 1 that differ in the amounts: whole numbers,
\* fractions, empty fields, a total half-way between two hundredths, a
\* refund.
AmountForms ==
    {[BaseInvoiceForm EXCEPT !.b_fee = a[1], !.b_med = a[2], !.b_tax = a[3]] :
        a \in {<<<<"3", "0", "0">>, <<"0">>, <<"1", "8">>>>,
               <<<<"3", "0", "0">>, <<"2", ".", "5", "0">>, <<"1", "2", ".", "5">>>>,
               <<<<"2", ".", "6", "7", "5">>, <<"0">>, <<"0">>>>,
               <<<<"0", ".", "1">>, <<"0", ".", "2">>, <<"1", "8">>>>,
               <<<<>>, <<>>, <<>>>>,
               <<<<"1", "0">>, <<"0">>, <<"0", ".", "2", "5">>>>,
               <<<<"1">>, <<"0", ".", "5">>, <<"0", ".", "5">>>>,
               <<<<"-", "5">>, <<"0">>, <<"1", "8">>>>}}

LoadInvoiceForms == {[b_pid |-> t] : t \in {<<"1">>, <<" ", "2">>, TWO_63}}

\* Diseases and search patterns.
COVID_19 == <<"C", "o", "v", "i", "d", "-", "1", "9">>
FLU == <<"F", "l", "u">>
DIABETES == <<"D", "i", "a", "b", "e", "t", "e", "s">>
RX_COVID_FLU == <<"c", "o", "v", "i", "d", "|", "f", "l", "u">>
RX_COVID_UPPER == <<"C", "O", "V", "I", "D">>
RX_GROUP == <<" ", "(", "b", "|", "c", ")", ".">>
RX_UNCLOSED == <<"(", "f", "l", "u">>
RX_UNOPENED == <<"f", "l", "u", ")">>

\* The patients of three diseases.
SearchPatientForms ==
    {[BasePatientForm EXCEPT !.p_disease = COVID_19],
     [BasePatientForm EXCEPT !.p_name = <<"B">>, !.p_disease = FLU,
                             !.p_status = "Critical"],
     [BasePatientForm EXCEPT !.p_name = <<"C">>, !.p_disease = DIABETES]}

\* Patterns typed into the Reports tab: alternatives, capitals, a group
\* with a blank in front, two unbalanced groups, nothing.
Patterns ==
    {RX_COVID_FLU, RX_COVID_UPPER, RX_GROUP, RX_UNCLOSED, RX_UNOPENED, <<>>}

\* What the search specification types: two patterns that compile, one of
\* them with blanks around it, and one that does not; two fields of the
\* combobox and one outside it.
TypedPatterns == {RX_COVID_FLU, RX_GROUP, RX_UNCLOSED}
TypedFields == {"disease", "name", "age"}

\* Fields handed to regex_query: the three the combobox offers and two it
\* does not.
SearchFields == {"disease", "status", "name", "age", ""}

\* Readings of datetime.now().strftime("%Y-%m-%d %H:%M:%S").
Timestamps == {"2025-01-05 09:30:00"}

\* One form of each kind.
OneUpdate == {[BasePatientForm EXCEPT !.p_id = <<"1">>, !.p_name = <<"B">>]}
OneApptLoad == {[ap_ptid |-> <<"1">>]}
OneInvoiceLoad == {[b_pid |-> <<"1">>]}

-----------------------------------------------------------------------------

\* One step of the program: a handler is called on a form of the given
\* sets, the program is started again, or a patient row is deleted.  The
\* caps stop the tables from growing without bound.
Step(roles, saves, updates, appts, loadsA, invs, loadsI, capP, capA, capI) ==
    \/ \E role \in roles : handle_login(role)
    \/ Restart
    \/ \E form \in saves :
          /\ sqlite_sequence.patients < capP
          /\ on_save_patient(form)
    \/ \E form \in updates : on_update_patient(form)
    \/ \E form \in appts :
          /\ sqlite_sequence.appointments < capA
          /\ on_add_appt(form)
    \/ \E form \in loadsA : on_load_appts(form)
    \/ \E form \in invs, now \in Timestamps :
          /\ sqlite_sequence.invoices < capI
          /\ on_create_invoice(form, now)
    \/ \E form \in loadsI : on_load_invoices(form)
    \/ \E pid \in 1..capP : DeletePatient(pid)

\* The patient forms in full; one appointment form, one invoice form.
Next ==
    Step({"Admin"}, PatientForms, UpdateForms, {BaseApptForm}, OneApptLoad,
         {BaseInvoiceForm}, OneInvoiceLoad, MaxPatients, SideRows, SideRows)

Spec == Init /\ [][Next]_vars

\* Every role; one form of each kind.
NextGate ==
    Step(LoginRoles, {BasePatientForm}, OneUpdate, {BaseApptForm},
         OneApptLoad, {BaseInvoiceForm}, OneInvoiceLoad,
         MaxPatients, MaxAppts, MaxInvoices)

SpecGate == Init /\ [][NextGate]_vars

\* Appointments and invoices that name every kind of patient identity.
NextRef ==
    Step({"Admin"}, {BasePatientForm}, OneUpdate, ApptFormsByPatient,
         LoadApptForms, InvoiceForms, LoadInvoiceForms,
         MaxPatients, SideRows, MaxInvoices)

SpecRef == Init /\ [][NextRef]_vars

\* Appointments of one patient at every date and time.
NextAppt ==
    Step({"Admin"}, {BasePatientForm}, OneUpdate, ApptFormsByTime,
         OneApptLoad, {BaseInvoiceForm}, OneInvoiceLoad,
         SideRows, MaxAppts, SideRows)

SpecAppt == Init /\ [][NextAppt]_vars

\* Invoices of every kind of amount, and their totals.
NextBilling ==
    \/ Step({"Admin"}, {BasePatientForm}, OneUpdate, {BaseApptForm},
            OneApptLoad, AmountForms, OneInvoiceLoad,
            MaxPatients, SideRows, SideRows)
    \/ \E r \in invoices, args \in {<<>>, <<TRUE>>, <<FALSE>>} :
          InvoiceTotal(r, args)

SpecBilling == Init /\ [][NextBilling]_vars

\* The Patients and Reports tabs: patients of three diseases, as many as
\* there are forms for them, and searches among them.
NextSearch ==
    \/ handle_login("Admin")
    \/ Restart
    \/ \E form \in SearchPatientForms :
          /\ sqlite_sequence.patients < Cardinality(SearchPatientForms)
          /\ on_save_patient(form)
    \/ \E form \in OneUpdate : on_update_patient(form)
    \/ \E pid \in 1..Cardinality(SearchPatientForms) : DeletePatient(pid)
    \/ \E text \in TypedPatterns, field \in TypedFields :
          on_regex_search(text, field)

SpecSearch == Init /\ [][NextSearch]_vars

-----------------------------------------------------------------------------
(* The claims.  In an action formula the unprimed state is the one a call  *)
(* starts in and last' describes that call.                                *)

GatedOps ==
    {"on_save_patient", "on_update_patient", "on_add_appt",
     "on_create_invoice"}

\* The role sets as the specification gives them.
ClaimedRoles(op) ==
    IF op = "on_create_invoice" THEN {"Admin", "Doctor"}
    ELSE {"Admin", "Receptionist", "Doctor"}

StoreUnchanged ==
    /\ patients' = patients
    /\ appointments' = appointments
    /\ invoices' = invoices
    /\ sqlite_sequence' = sqlite_sequence
    /\ disk' = disk

\* C1: a gated operation called by a role outside the operation's role set
\* (Guest included) ends in AccessDenied, writes the denial line naming the
\* role and the operation, and leaves the three tables as they were.
C1_DeniedCallDoesNothing ==
    [][(last'.op \in GatedOps /\ current_role \notin ClaimedRoles(last'.op))
        => /\ last'.outcome = "AccessDenied"
           /\ last'.log = [event |-> "ACCESS DENIED", role |-> current_role,
                           fn |-> last'.op, id |-> PyNat(0)]
           /\ StoreUnchanged]_vars

\* A Guest is denied an appointment for a patient the store holds.
C1_Witness ==
    /\ last.op = "on_add_appt"
    /\ last.role = "Guest"
    /\ last.outcome = "AccessDenied"
    /\ last.args = BaseApptForm
    /\ \E r \in patients : r.id = 1

\* C2: a gated call is denied exactly when the role is outside the set the
\* specification gives for the operation; an invoice create by Receptionist
\* is denied and adds no invoice row; the same call by Doctor, for a patient
\* the store holds, succeeds and adds exactly one invoice row.
C2_RoleSets ==
    [][last'.op \in GatedOps
        => /\ (last'.outcome = "AccessDenied")
                <=> (current_role \notin ClaimedRoles(last'.op))
           /\ (last'.op = "on_create_invoice" /\ current_role = "Receptionist")
                => /\ last'.outcome = "AccessDenied"
                   /\ invoices' = invoices
                   /\ disk'.invoices = disk.invoices
           /\ (/\ last'.op = "on_create_invoice"
               /\ current_role = "Doctor"
               /\ [last'.args EXCEPT !.now = ""] = BaseInvoiceForm
               /\ \E r \in patients : r.id = 1)
                => /\ last'.outcome = "ok"
                   /\ invoices \subseteq invoices'
                   /\ Cardinality(invoices') = Cardinality(invoices) + 1
                   /\ disk'.invoices = invoices']_vars

\* A Receptionist is denied an invoice for a patient that already has one.
C2_Witness ==
    /\ last.op = "on_create_invoice"
    /\ last.role = "Receptionist"
    /\ last.outcome = "AccessDenied"
    /\ \E r \in invoices : r.patient_id = PyNat(1)

\* C3: after a patient is created, get_patient of the identity returned
\* gives the Patient that was handed to add_patient, field for field, with
\* the identity filled in; whatever store operations came before.
C3_CreateThenGet ==
    (last.op = "on_save_patient" /\ last.outcome = "ok")
        => get_patient(PyNat(last.ret)) =
              [exc |-> "",
               val |-> Some([validate_patient(last.args).patient
                                EXCEPT !.id = Some(PyNat(last.ret))])]

\* A patient whose name was typed with a blank in front is created as the
\* second row of the table.
C3_Witness ==
    /\ last.op = "on_save_patient"
    /\ last.outcome = "ok"
    /\ last.args.p_name = <<" ", "B">>
    /\ last.ret = 2
    /\ Cardinality(patients) = 2

\* C4: update_patient of a Patient without identity raises ValidationError
\* and leaves the view and the file as they were, in every state; an update
\* called with the Patient ID field blank ends in ValidationError with every
\* table as it was.
C4_UpdateWithoutIdentity ==
    /\ [](\A f \in GoodPatientForms :
             update_patient(validate_patient(f).patient) =
                [exc |-> "ValidationError", ret |-> 0,
                 view |-> View, disk |-> disk])
    /\ [][(/\ last'.op = "on_update_patient"
           /\ current_role \in ClaimedRoles(last'.op)
           /\ Strip(last'.args.p_id) = <<>>)
          => /\ last'.outcome = "ValidationError"
             /\ StoreUnchanged]_vars

\* An update of well-formed fields with the Patient ID field blank is
\* refused while the table holds rows.
C4_Witness ==
    /\ last.op = "on_update_patient"
    /\ last.outcome = "ValidationError"
    /\ last.args.p_id = <<" ">>
    /\ validate_patient(last.args).exc = ""
    /\ Cardinality(patients) = 2

\* C5: the phone value is the entry as _validate_patient reads it, blanks
\* around it removed.  A save or an update whose phone value is not exactly
\* 10 decimal digits ends in ValidationError with every table as it was (so
\* for 12345 and 12345678901); a save of 9876543210 with the other fields
\* well-formed is accepted; and every patient row, in the view and in the
\* file, holds a phone of exactly 10 decimal digits.
C5_PhoneTenDigits ==
    /\ [](\A r \in patients \cup disk.patients : PhoneMatches(r.phone))
    /\ [][(/\ last'.op \in {"on_save_patient", "on_update_patient"}
           /\ current_role \in ClaimedRoles(last'.op))
          => /\ ~PhoneMatches(Strip(last'.args.p_phone))
                  => /\ last'.outcome = "ValidationError"
                     /\ StoreUnchanged
             /\ (last'.op = "on_save_patient" /\ last'.args = BasePatientForm)
                  => /\ last'.outcome = "ok"
                     /\ \E r \in patients' \ patients : r.phone = PHONE_OK]_vars

\* A save with the 11-digit phone is refused while the table holds a row.
C5_Witness ==
    /\ last.op = "on_save_patient"
    /\ last.outcome = "ValidationError"
    /\ last.args.p_phone = PHONE_LONG
    /\ \E r \in patients : r.phone = PHONE_OK

\* C6: deleting a patient removes the patient's row and exactly the
\* appointments and invoices that reference it; and in every state every
\* appointment and every invoice, in the view and in the file, references a
\* patient row that exists.
C6_CascadeNoOrphans ==
    /\ [](/\ \A r \in appointments \cup invoices :
                \E q \in patients : PyNat(q.id) = r.patient_id
          /\ \A r \in disk.appointments \cup disk.invoices :
                \E q \in disk.patients : PyNat(q.id) = r.patient_id)
    /\ [][last'.op = "delete_patient"
          => /\ patients' = {r \in patients : r.id # last'.args.pid}
             /\ appointments' =
                  {r \in appointments : r.patient_id # PyNat(last'.args.pid)}
             /\ invoices' =
                  {r \in invoices : r.patient_id # PyNat(last'.args.pid)}
             /\ disk' = View']_vars

\* Patient 1 is deleted and its appointment and its invoice go with it,
\* while patient 2 and the invoice of patient 2 stay.
C6_Witness ==
    /\ last.op = "delete_patient"
    /\ last.args.pid = 1
    /\ sqlite_sequence.appointments = 1
    /\ appointments = {}
    /\ sqlite_sequence.invoices = 2
    /\ Cardinality(invoices) = 1
    /\ \E r \in invoices : r.patient_id = PyNat(2)

\* The patient identity a call names: the Patient ID field under int().
NamedPatient(call) ==
    PyInt(IF call.op = "on_add_appt" THEN call.args.ap_ptid
          ELSE call.args.b_pid)

\* C7: an appointment add or an invoice create by a permitted role whose
\* Patient ID is a number that matches no patient row ends in
\* ValidationError and adds no appointment and no invoice.
C7_MissingPatientRejected ==
    [][(/\ last'.op \in {"on_add_appt", "on_create_invoice"}
        /\ current_role \in ClaimedRoles(last'.op)
        /\ NamedPatient(last').ok
        /\ \A r \in patients : PyNat(r.id) # NamedPatient(last').val)
       => /\ last'.outcome = "ValidationError"
          /\ appointments' = appointments
          /\ invoices' = invoices]_vars

\* The rows a successful call has written, as the file holds them.
WrittenRowCommitted ==
    /\ (last.op = "on_save_patient" /\ last.outcome = "ok")
          => \E r \in disk.patients :
                /\ r.id = last.ret
                /\ PatientOfRow(r) =
                      [validate_patient(last.args).patient
                          EXCEPT !.id = Some(PyNat(last.ret))]
    /\ (last.op = "on_update_patient" /\ last.outcome = "ok")
          => \A r \in disk.patients :
                PyNat(r.id) = PyInt(last.args.p_id).val
                   => PatientOfRow(r) =
                         [validate_patient(last.args).patient
                             EXCEPT !.id = Some(PyNat(r.id))]
    /\ (last.op = "on_add_appt" /\ last.outcome = "ok")
          => \E r \in disk.appointments :
                /\ r.id = last.ret
                /\ r.patient_id = PyInt(last.args.ap_ptid).val
                /\ r.doctor = Strip(last.args.ap_doc)
                /\ r.date = Strip(last.args.ap_date)
                /\ r.time = Strip(last.args.ap_time)
                /\ r.notes = Strip(last.args.ap_notes)
    /\ (last.op = "on_create_invoice" /\ last.outcome = "ok")
          => \E r \in disk.invoices :
                /\ r.id = last.ret
                /\ r.patient_id = PyInt(last.args.b_pid).val
                /\ r.consultation_fee = FloatField(last.args.b_fee).val
                /\ r.medicines_total = FloatField(last.args.b_med).val
                /\ r.tax_pct = FloatField(last.args.b_tax).val
                /\ r.created_at = last.args.now

\* Every row of the file is in what the four reads return.
CommittedRowsAreRead ==
    /\ \A r \in disk.patients :
          /\ get_patient(PyNat(r.id)) =
                [exc |-> "", val |-> Some(PatientOfRow(r))]
          /\ \E i \in DOMAIN all_patients : all_patients[i] = PatientOfRow(r)
    /\ \A r \in disk.appointments :
          /\ appointments_for(r.patient_id).vals # {}
          /\ \A s \in appointments_for(r.patient_id).vals :
                \E i \in DOMAIN s : s[i] = AppointmentOfRow(r)
    /\ \A r \in disk.invoices :
          \E i \in DOMAIN invoices_for(r.patient_id).val :
             invoices_for(r.patient_id).val[i] = InvoiceOfRow(r)

\* C8: when a call returns, the file holds all that the connection sees, the
\* row a successful mutating call has written among it; every row of the
\* file is returned by get_patient, all_patients, appointments_for and
\* invoices_for; and a row stays in the file until its patient is deleted
\* or, for a patient row, an update of its identity overwrites it.
C8_CommittedAndVisible ==
    /\ [](View = disk /\ WrittenRowCommitted /\ CommittedRowsAreRead)
    /\ [][/\ \A r \in disk.patients :
                \/ r \in disk'.patients
                \/ last'.op = "delete_patient" /\ last'.args.pid = r.id
                \/ /\ last'.op = "on_update_patient"
                   /\ last'.outcome = "ok"
                   /\ PyInt(last'.args.p_id).val = PyNat(r.id)
          /\ \A r \in disk.appointments :
                \/ r \in disk'.appointments
                \/ /\ last'.op = "delete_patient"
                   /\ PyNat(last'.args.pid) = r.patient_id
          /\ \A r \in disk.invoices :
                \/ r \in disk'.invoices
                \/ /\ last'.op = "delete_patient"
                   /\ PyNat(last'.args.pid) = r.patient_id]_vars

\* The program has been started again on a file that holds rows of all
\* three tables.
C8_Witness ==
    /\ last = FirstCall
    /\ current_role = "Guest"
    /\ Cardinality(patients) = 2
    /\ appointments # {}
    /\ Cardinality(invoices) = 2

\* The natural a Python int of the model stands for.
RECURSIVE MagValue(_)
MagValue(m) ==
    IF m = <<>> THEN 0
    ELSE 10 * MagValue(SubSeq(m, 1, Len(m) - 1)) + m[Len(m)]

\* The identities of a list run strictly downwards.
StrictlyDescending(s) ==
    \A i, j \in DOMAIN s :
       i < j => MagValue(s[i].id[1].mag) > MagValue(s[j].id[1].mag)

\* C9: all_patients returns every patient row once, and invoices_for the
\* invoice rows of the patient asked for and no other, each list in strictly
\* descending identity; a row that is created gets an identity above every
\* identity in its table, so it comes before the rows created earlier.
C9_NewestFirst ==
    /\ [](/\ Len(all_patients) = Cardinality(patients)
          /\ {all_patients[i] : i \in DOMAIN all_patients} =
                {PatientOfRow(r) : r \in patients}
          /\ StrictlyDescending(all_patients)
          /\ \A n \in 1..(MaxPatients + 1) :
                LET got == invoices_for(PyNat(n))
                    rows == {r \in invoices : r.patient_id = PyNat(n)}
                IN  /\ got.exc = ""
                    /\ Len(got.val) = Cardinality(rows)
                    /\ {got.val[i] : i \in DOMAIN got.val} =
                          {InvoiceOfRow(r) : r \in rows}
                    /\ StrictlyDescending(got.val))
    /\ [][/\ \A r \in patients' :
                r.id \notin Ids(patients) => \A q \in patients : r.id > q.id
          /\ \A r \in invoices' :
                r.id \notin Ids(invoices) => \A q \in invoices : r.id > q.id
          /\ (last'.op = "on_save_patient" /\ last'.outcome = "ok")
                => /\ Head(all_patients').id = Some(PyNat(last'.ret))
                   /\ Tail(all_patients') = all_patients
          /\ (last'.op = "on_create_invoice" /\ last'.outcome = "ok")
                => \E pid \in {PyInt(last'.args.b_pid).val} :
                      /\ Head(invoices_for(pid).val').id =
                            Some(PyNat(last'.ret))
                      /\ Tail(invoices_for(pid).val') = invoices_for(pid).val
                      /\ last'.rows = invoices_for(pid).val']_vars

\* Two patients are held, and the invoices of a patient are loaded: two
\* rows, the later one first.
C9_Witness ==
    /\ Cardinality(patients) = 2
    /\ last.op = "on_load_invoices"
    /\ Len(last.rows) = 2
    /\ last.rows[1].id = Some(PyNat(2))
    /\ last.rows[2].id = Some(PyNat(1))

\* The number a run of decimal digits spells.
FieldValue(s) == DigitsToNat(s)

\* A date typed as year-month-day, as a day count that grows with the
\* calendar (months and days weighted, not their lengths).
DateValue(d) ==
    LET dashes == {i \in 1..Len(d) : d[i] = "-"}
        a == CHOOSE i \in dashes : \A j \in dashes : i <= j
        b == CHOOSE i \in dashes : \A j \in dashes : j <= i
    IN  FieldValue(SubSeq(d, 1, a - 1)) * 10000
        + FieldValue(SubSeq(d, a + 1, b - 1)) * 100
        + FieldValue(SubSeq(d, b + 1, Len(d)))

\* A time typed as hours:minutes, in minutes since midnight.
TimeValue(t) ==
    LET c == CHOOSE i \in 1..Len(t) : t[i] = ":"
    IN  FieldValue(SubSeq(t, 1, c - 1)) * 60
        + FieldValue(SubSeq(t, c + 1, Len(t)))

\* Appointment a is at an earlier moment than appointment b.
Earlier(a, b) ==
    \/ DateValue(a.date) < DateValue(b.date)
    \/ DateValue(a.date) = DateValue(b.date)
          /\ TimeValue(a.time) < TimeValue(b.time)

\* C10: appointments_for returns exactly the appointment rows of the patient
\* asked for, and no appointment in the list comes before one that is at a
\* later moment, for the dates and times add_appointment has stored.
C10_MostRecentFirst ==
    \A n \in 1..(SideRows + 1) :
       \A s \in appointments_for(PyNat(n)).vals :
          /\ Len(s) = Cardinality({r \in appointments : r.patient_id = PyNat(n)})
          /\ {s[i] : i \in DOMAIN s} =
                {AppointmentOfRow(r) :
                    r \in {q \in appointments : q.patient_id = PyNat(n)}}
          /\ \A i, j \in DOMAIN s : i < j => ~Earlier(s[i], s[j])

\* The Patient ID a load names: the field under int().
LoadedPatient(call) ==
    PyInt(IF call.op = "on_load_appts" THEN call.args.ap_ptid
          ELSE call.args.b_pid)

\* C11: in every state, for every identity, get_patient returns None when
\* no patient row matches, and appointments_for / invoices_for return the
\* empty list when no row of theirs names the identity, none of them
\* raising; and a load of the appointments or invoices of such an identity
\* ends without an exception, shows no row and leaves the store as it was.
C11_ReadsOnMissingData ==
    /\ [](\A t \in PatientIdTexts :
             PyInt(t).ok =>
                LET id == PyInt(t).val
                IN  /\ (\A r \in patients : PyNat(r.id) # id)
                          => get_patient(id) = [exc |-> "", val |-> None]
                    /\ (\A r \in appointments : r.patient_id # id)
                          => appointments_for(id) =
                                [exc |-> "", vals |-> {<<>>}]
                    /\ (\A r \in invoices : r.patient_id # id)
                          => invoices_for(id) = [exc |-> "", val |-> <<>>])
    /\ [][last'.op \in {"on_load_appts", "on_load_invoices"}
          => /\ StoreUnchanged
             /\ (/\ LoadedPatient(last').ok
                 /\ \A r \in appointments \cup invoices :
                       r.patient_id # LoadedPatient(last').val)
                   => last'.outcome = "ok" /\ last'.rows = <<>>]_vars

\* (consultation_fee + medicines_total) * (1 + tax_pct / 100) when the tax
\* is included, else consultation_fee + medicines_total, as a fraction.
ClaimedTotal(inv, include_tax) ==
    LET sub == DecAdd(Dec(inv.consultation_fee), Dec(inv.medicines_total))
        tax == Dec(inv.tax_pct)
    IN  IF include_tax
        THEN [n |-> sub.n * (100 * Pow10(tax.d) + tax.n), d |-> sub.d + tax.d + 2]
        ELSE sub

\* t is x rounded to two decimals: t has at most two decimals and lies
\* within half a hundredth of x.
IsRoundedTo2(t, x) ==
    LET c == Dec(t).n * Pow10(2 - t.exp10)
        diff == c * Pow10(x.d) - 100 * x.n
    IN  /\ t.exp10 <= 2
        /\ 2 * (IF diff < 0 THEN 0 - diff ELSE diff) <= Pow10(x.d)

\* C12: total(include_tax) is (consultation_fee + medicines_total) *
\* (1 + tax_pct / 100) rounded to two decimals when include_tax is true or
\* not given, and consultation_fee + medicines_total rounded to two decimals
\* when it is false; the invoice and the store are as before the call; and
\* for fee 300, medicines 0, tax 18 the total is 354.00 with the tax and
\* 300.00 without.
C12_InvoiceTotal ==
    /\ [](/\ last.op = "total"
                => /\ IsRoundedTo2(last.ret,
                         ClaimedTotal(last.args.self,
                            last.args.args = <<>> \/ last.args.args = <<TRUE>>))
                   /\ \E r \in invoices : InvoiceOfRow(r) = last.args.self
          /\ \A inv \in {Invoice(PyNat(1), PyFloat(<<"3", "0", "0">>).val,
                                 PyFloat(<<"0">>).val,
                                 PyFloat(<<"1", "8">>).val, "")} :
                /\ total(inv, <<TRUE>>) =
                      {PyFloat(<<"3", "5", "4", ".", "0", "0">>).val}
                /\ total(inv, <<>>) = total(inv, <<TRUE>>)
                /\ total(inv, <<FALSE>>) =
                      {PyFloat(<<"3", "0", "0", ".", "0", "0">>).val})
    /\ [][last'.op = "total" => StoreUnchanged]_vars

\* The total of fee 300, medicines 2.50, tax 12.5 is asked for without an
\* argument: 340.3125 comes back as 340.31.
C12_Witness ==
    /\ last.op = "total"
    /\ last.args.args = <<>>
    /\ last.args.self.medicines_total = PyFloat(<<"2", ".", "5">>).val
    /\ last.args.self.tax_pct = PyFloat(<<"1", "2", ".", "5">>).val
    /\ last.ret = PyFloat(<<"3", "4", "0", ".", "3", "1">>).val

\* Two characters that differ at most in case.
SameLetter(a, b) ==
    \/ a = b
    \/ \E i \in 1..26 : {a, b} = {Uppercase[i], Lowercase[i]}

\* word occurs somewhere in text, case ignored.
ContainsIgnoringCase(text, word) ==
    \E k \in 0..(Len(text) - Len(word)) :
       \A i \in 1..Len(word) : SameLetter(text[k + i], word[i])

\* The rows whose field has a match of the pattern.
MatchingRows(pattern, field) ==
    {r \in patients : Search(pattern, ColumnText(r, field))}

\* The three patients of the example: A with Covid-19, B with Flu, C with
\* Diabetes, as rows 1, 2 and 3.
ExamplePatients ==
    {<<r.id, r.name, r.disease>> : r \in patients} =
       {<<1, <<"A">>, COVID_19>>, <<2, <<"B">>, FLU>>, <<3, <<"C">>, DIABETES>>}

\* C13: for every pattern that compiles and each of the fields disease,
\* status and name, regex_query returns the (name, id) pair of every patient
\* whose field has a match of the pattern anywhere in it, case ignored, once
\* each and no other pair, in ascending identity (the order in which the
\* store reads the table); "COVID" matches exactly the diseases containing
\* "covid" in any case; over the example patients "covid|flu" on disease
\* returns patients 1 and 2 and "COVID" returns patient 1; a search shows
\* that result and changes no row.
C13_SearchResult ==
    /\ [](\A pattern \in Patterns, field \in {"disease", "status", "name"} :
             Compiles(pattern) =>
                \E res \in {regex_query(pattern, field)},
                   rows \in {MatchingRows(pattern, field)} :
                   /\ res.exc = ""
                   /\ Len(res.val) = Cardinality(rows)
                   /\ {res.val[i] : i \in DOMAIN res.val} =
                         {<<r.name, PyNat(r.id)>> : r \in rows}
                   /\ \A i, j \in DOMAIN res.val :
                         i < j => MagValue(res.val[i][2].mag)
                                     < MagValue(res.val[j][2].mag))
    /\ [](\A r \in patients :
             Search(RX_COVID_UPPER, r.disease)
                <=> ContainsIgnoringCase(r.disease, <<"c", "o", "v", "i", "d">>))
    /\ [](ExamplePatients =>
             /\ regex_query(RX_COVID_FLU, "disease").val =
                   <<<<<<"A">>, PyNat(1)>>, <<<<"B">>, PyNat(2)>>>>
             /\ regex_query(RX_COVID_UPPER, "disease").val =
                   <<<<<<"A">>, PyNat(1)>>>>)
    /\ [][(last'.op = "on_regex_search" /\ last'.outcome = "ok")
            => /\ StoreUnchanged
               /\ last'.rows = regex_query(Strip(last'.args.rx_pattern),
                                           last'.args.rx_field).val
               /\ tree_rx' = last'.rows]_vars

\* Among the example patients a search for "covid|flu" in disease has shown
\* patients 1 and 2.
C13_Witness ==
    /\ ExamplePatients
    /\ last.op = "on_regex_search"
    /\ last.args = [rx_pattern |-> RX_COVID_FLU, rx_field |-> "disease"]
    /\ tree_rx = <<<<<<"A">>, PyNat(1)>>, <<<<"B">>, PyNat(2)>>>>

\* The pattern opens and closes different numbers of groups.
Unbalanced(p) ==
    Cardinality({m \in DOMAIN p : p[m] = "("})
       # Cardinality({m \in DOMAIN p : p[m] = ")"})

\* C14: regex_query of a pattern with an unbalanced group raises re.error
\* (the PatternError) and returns no result, whatever the field; a search
\* for such a pattern ends in re.error with no row shown for it, the result
\* list as it was before the search, and the store unchanged.
C14_MalformedPattern ==
    /\ [](\A pattern \in Patterns, field \in SearchFields :
             Unbalanced(pattern)
                => regex_query(pattern, field) =
                      [exc |-> "re.error", val |-> <<>>])
    /\ [][(/\ last'.op = "on_regex_search"
           /\ Unbalanced(Strip(last'.args.rx_pattern)))
            => /\ last'.outcome = "re.error"
               /\ last'.rows = <<>>
               /\ tree_rx' = tree_rx
               /\ StoreUnchanged]_vars

\* A search for "(flu" has failed while the list shows the result of an
\* earlier search.
C14_Witness ==
    /\ last.op = "on_regex_search"
    /\ last.args.rx_pattern = RX_UNCLOSED
    /\ last.outcome = "re.error"
    /\ tree_rx # <<>>

\* C16: for every pattern, regex_query on a field other than disease,
\* status and name raises only what the query on disease raises and
\* returns exactly what the query on disease returns; a search on such a
\* field ends as the search on disease would.
C16_UnknownFieldIsDisease ==
    /\ [](\A pattern \in Patterns :
             \A field \in SearchFields \ {"disease", "status", "name"} :
                /\ regex_query(pattern, field) = regex_query(pattern, "disease")
                /\ Compiles(pattern) => regex_query(pattern, field).exc = "")
    /\ [][(/\ last'.op = "on_regex_search"
           /\ last'.args.rx_field \notin {"disease", "status", "name"})
            => \E res \in {regex_query(Strip(last'.args.rx_pattern),
                                       "disease")} :
                  /\ last'.outcome = (IF res.exc = "" THEN "ok" ELSE res.exc)
                  /\ last'.rows = res.val
                  /\ res.exc = "" => tree_rx' = res.val]_vars

\* A search on the field "age" has shown the patients whose disease matches
\* "covid|flu", which are not the patients whose name matches.
C16_Witness ==
    /\ last.op = "on_regex_search"
    /\ last.args = [rx_pattern |-> RX_COVID_FLU, rx_field |-> "age"]
    /\ tree_rx # <<>>
    /\ tree_rx = regex_query(RX_COVID_FLU, "disease").val
    /\ tree_rx # regex_query(RX_COVID_FLU, "name").val

\* The operations the program exposes; the deletion of a patient row is
\* none of them.
ExposedOps ==
    {"handle_login", "on_save_patient", "on_update_patient", "on_add_appt",
     "on_load_appts", "on_create_invoice", "on_load_invoices",
     "on_regex_search", "total", "__init__"}

AssignedAbove(old, new, seq_old, seq_new) ==
    /\ seq_new >= seq_old
    /\ \A id \in Ids(new) \ Ids(old) :
          /\ id > seq_old
          /\ id <= seq_new
          /\ \A o \in Ids(old) : id > o

\* A call of the handler fn that ended well returned an identity the table
\* did not hold, above the table's counter.
CreateReturnsNew(fn, old, new, seq_old) ==
    (last'.op = fn /\ last'.outcome = "ok")
       => /\ last'.ret \in Ids(new) \ Ids(old)
          /\ last'.ret > seq_old

\* C17: in each table no two rows share an identity and no identity lies
\* above the table's counter, which never falls; so the counter is at least
\* every identity the table has ever assigned.  Every new row's identity
\* lies above the counter and above every identity in the table, and it is
\* what the create returns: it was never assigned before, also when rows
\* were deleted, directly or by cascade.
C17_IdentitiesIncrease ==
    /\ [](/\ \A r, q \in patients : r.id = q.id => r = q
          /\ \A r, q \in appointments : r.id = q.id => r = q
          /\ \A r, q \in invoices : r.id = q.id => r = q
          /\ \A id \in Ids(patients) : id <= sqlite_sequence.patients
          /\ \A id \in Ids(appointments) : id <= sqlite_sequence.appointments
          /\ \A id \in Ids(invoices) : id <= sqlite_sequence.invoices)
    /\ [][/\ AssignedAbove(patients, patients',
                           sqlite_sequence.patients, sqlite_sequence'.patients)
          /\ AssignedAbove(appointments, appointments',
                           sqlite_sequence.appointments,
                           sqlite_sequence'.appointments)
          /\ AssignedAbove(invoices, invoices',
                           sqlite_sequence.invoices, sqlite_sequence'.invoices)
          /\ CreateReturnsNew("on_save_patient", patients, patients',
                              sqlite_sequence.patients)
          /\ CreateReturnsNew("on_add_appt", appointments, appointments',
                              sqlite_sequence.appointments)
          /\ CreateReturnsNew("on_create_invoice", invoices, invoices',
                              sqlite_sequence.invoices)
         ]_vars

\* Invoice 1 went with its patient; the invoice created afterwards, for
\* another patient, is invoice 2 and the only one.
C17_Witness ==
    /\ last.op = "on_create_invoice"
    /\ last.outcome = "ok"
    /\ last.ret = 2
    /\ Ids(invoices) = {2}
    /\ Ids(patients) = {2}

\* The identity an update names: the Patient ID field under int().
UpdatedPatient(call) == PyInt(Strip(call.args.p_id))

\* C18: an update by a permitted role of a form that validates, with an age
\* the store can hold and a Patient ID that is a number matching no patient
\* row, ends well with the update logged, and leaves the store as it was,
\* the number of patients included.
C18_UpdateOfMissingPatient ==
    [][(/\ last'.op = "on_update_patient"
        /\ current_role \in ClaimedRoles(last'.op)
        /\ validate_patient(last'.args).exc = ""
        /\ FitsSqliteInt(validate_patient(last'.args).patient.age)
        /\ UpdatedPatient(last').ok
        /\ \A r \in patients : PyNat(r.id) # UpdatedPatient(last').val)
       => /\ last'.outcome = "ok"
          /\ last'.log = LogLine("UPDATE PATIENT", UpdatedPatient(last').val)
          /\ StoreUnchanged
          /\ Cardinality(patients') = Cardinality(patients)]_vars

====
